---- MODULE Spec2Model ----
(***************************************************************************)
(* A model of the entity/component storage engine of ecs_s.hpp: the        *)
(* sparse_set<T> container and the registry built on it; and of the        *)
(* thread_pool of thread_pool.hpp.                                         *)
(*                                                                         *)
(* The code of each function is an operator over the values it reads and   *)
(* writes (emplace, erase, new_entity, ...); each call of the interface is *)
(* an action (Emplace, NewEntity, ...) that applies the operator to the    *)
(* state and records the call in `last`.  An exception is the field        *)
(* `thrown` of a result.                                                   *)
(*                                                                         *)
(*   Spec           one registry, two component types, every operation     *)
(*   SpecPayload    one registry, one component type, two payload values,  *)
(*                  entity indices up to and beyond max_capacity           *)
(*   SpecLifecycle  two registries sharing the static counters, new_entity *)
(*                  and remove_entity with the history of the calls        *)
(*   SpecSet        one sparse_set<T> used directly                        *)
(*   SpecQuery      one registry, two component types, two payload values, *)
(*                  the calls that read components and those that change   *)
(*                  them                                                   *)
(*   SpecView       one registry, two component types of up to three       *)
(*                  entities, the view queries                             *)
(*   SpecIds        three threads in get_component_id<T>()                 *)
(*   SpecMap        one sparse_set<T> and a finite map given the same      *)
(*                  calls, entity indices within capacity                  *)
(*   SpecPool       a thread_pool of two workers, two threads that call    *)
(*                  enqueue and one that calls shutdown                    *)
(*   SpecPoolFair   SpecPool under a fair scheduler                        *)
(***************************************************************************)
EXTENDS Integers, Sequences, FiniteSets, TLC

(***************************************************************************)
(* Bounds of the model.                                                    *)
(***************************************************************************)
\* cap on the fresh-id counter next_entity_
MaxEntity == 2
\* cap on the length of a registry's free list in SpecLifecycle
MaxFree == 2
\* cap on the length of the free list in Spec
MaxRecycle == 1
\* cap on the number of enqueue calls made on the thread pool
MaxTasks == 2

(***************************************************************************)
(* Program constants.                                                      *)
(***************************************************************************)
\* static_cast<std::size_t>(-1): the "absent" mark of a sparse slot
NPOS == -1
\* the sparse array's length after construction
initial_sparse_size == 1024
\* sparse_set::max_capacity
max_capacity == 1000000
\* a value-initialised payload, T{}
default_payload == 0

(***************************************************************************)
(* Input domains.                                                          *)
(***************************************************************************)
Registries == {1, 2}
\* the threads that call get_component_id<T>() concurrently
Threads == {1, 2, 3}
\* the worker threads of the thread pool, and the threads that call enqueue
PoolWorkers == {1, 2}
Producers == {1, 2}
Types == {"Position", "Velocity"}
Payloads == {1, 2}
\* the entities components are added to and removed from: two ids the
\* registry mints, and one index that needs a sparse array of
\* max_capacity + 1 slots
Entities == {1, 2, max_capacity}
\* the entity indices around the growth steps of a sparse array: within the
\* initial length, one that doubles it, two that need more than half of
\* max_capacity slots, and one that needs max_capacity + 1
FarEntities == {1, 1024, 599999, 600000, max_capacity}
\* the entities of the storages SpecView iterates: enough for one storage
\* to be strictly smaller than another and still share two entities with it
ViewEntities == {1, 2, 3}
\* the ids a registry can have handed out
Handles == 1 .. MaxEntity
\* every entity index whose sparse slot the model tracks
Indices == Entities \cup FarEntities \cup ViewEntities \cup Handles

VARIABLES
    next_entity_,         \* registry::next_entity_ (static, shared by all registries)
    next_component_id_,   \* registry::next_component_id_ (static)
    type_id,              \* the function-local static id of get_component_id<T>, 0 = not yet initialised
    free_entities_,       \* per registry: free_entities_
    component_storages_,  \* per registry: component_storages_, component_id -> sparse_set
    last,                 \* the last call made and what it returned
    pending,              \* per registry: the remove_entity calls not yet answered by a new_entity, oldest first
    minted,               \* per registry: how many ids the registry minted
    run,                  \* per registry: the ids new_entity returned since the last remove_entity
    set,                  \* a sparse_set<T> used on its own
    set_call,             \* the last call made on set
    entries,              \* the entries set holds by the calls made on it: index -> payload
    abstract_map,         \* in SpecMap: a finite map run side by side with set, emplace as put and erase as delete
    stored,               \* per component type: the payloads the calls left on registry 1, entity -> payload
    guard,                \* per component type, in SpecIds: the initialisation guard of get_component_id<T>'s static id
    threads,              \* per thread: its position in get_component_id<T> and what it returned
    tasks_,               \* thread_pool::tasks_, the queue of accepted tasks
    stop_requested_,      \* thread_pool::stop_requested_
    queue_mutex_,         \* thread_pool::queue_mutex_: "free" or "held"
    workers,              \* per worker thread of threads_: its position in worker_loop, its task, its stop token
    producers,            \* per thread that calls enqueue: its position in the call
    caller,               \* the thread that calls shutdown: its position in the call
    log                   \* the enqueue calls made, the tasks accepted, taken from the queue and run

vars == <<next_entity_, next_component_id_, type_id, free_entities_,
          component_storages_, last, pending, minted, run, set, set_call,
          entries, abstract_map, stored, guard, threads,
          tasks_, stop_requested_, queue_mutex_, workers, producers, caller, log>>

Max(a, b) == IF a >= b THEN a ELSE b

(***************************************************************************)
(* sparse_set<T>                                                           *)
(***************************************************************************)
\* struct storage, value-initialised
storage == [index |-> NPOS, payload |-> default_payload]

\* sparse_set(): 1024 absent sparse slots, no dense entry.
\*   sparse_size  sparse_.size()
\*   sparse_      sparse_[i] for the indices the model tracks; a slot at or
\*                beyond sparse_size does not exist and is kept at NPOS
\*   dense_       dense_[0 .. n), the entries the code reads
\*   dense_size   dense_.size(); the entries at [n, dense_size) are left-overs
\*                of erase that emplace overwrites before anything reads them
\*   n            the logical size
sparse_set ==
    [sparse_size |-> initial_sparse_size,
     sparse_     |-> [i \in Indices |-> NPOS],
     dense_      |-> <<>>,
     dense_size  |-> 0,
     n           |-> 0]

\* dense_[i] with the code's 0-based index
dense_at(s, i) == s.dense_[i + 1]

size(s) == s.n

has(s, index) ==
    /\ index < s.sparse_size
    /\ s.sparse_[index] /= NPOS
    /\ s.sparse_[index] < s.n
    /\ dense_at(s, s.sparse_[index]).index = index

\* operator[]: defined only under has(s, index)
payload_of(s, index) == dense_at(s, s.sparse_[index]).payload

\* grow_sparse_to without its capacity check
grow_sparse_to_unchecked(s, index) ==
    IF index >= s.sparse_size
    THEN [thrown |-> FALSE,
          set |-> [s EXCEPT !.sparse_size = Max(s.sparse_size * 2, index + 1)]]
    ELSE [thrown |-> FALSE, set |-> s]

\* grow_sparse_to: the set with the sparse array resized, or the throw
grow_sparse_to(s, index) ==
    IF index >= s.sparse_size
    THEN LET want     == index + 1
             new_size == Max(s.sparse_size * 2, want)
         IN  IF new_size > max_capacity
             THEN [thrown |-> TRUE, set |-> s]
             ELSE [thrown |-> FALSE, set |-> [s EXCEPT !.sparse_size = new_size]]
    ELSE [thrown |-> FALSE, set |-> s]

\* emplace that appends a dense entry also for an entity the set already has
emplace_always_append(s, index, v) ==
    LET g == grow_sparse_to(s, index)
    IN  IF g.thrown THEN g
        ELSE LET s1 == g.set
             IN  [thrown |-> FALSE,
                  set |-> [s1 EXCEPT !.dense_ = Append(@, [index |-> index, payload |-> v]),
                                     !.dense_size = IF @ = s1.n THEN @ + 1 ELSE @,
                                     !.sparse_[index] = s1.n,
                                     !.n = s1.n + 1]]

\* emplace that leaves the payload of an entity the set already has
emplace_no_overwrite(s, index, v) ==
    LET g == grow_sparse_to(s, index)
    IN  IF g.thrown THEN g
        ELSE LET s1 == g.set
             IN  IF has(s1, index)
                 THEN [thrown |-> FALSE, set |-> s1]
                 ELSE [thrown |-> FALSE,
                       set |-> [s1 EXCEPT !.dense_ = Append(@, [index |-> index, payload |-> v]),
                                          !.dense_size = IF @ = s1.n THEN @ + 1 ELSE @,
                                          !.sparse_[index] = s1.n,
                                          !.n = s1.n + 1]]

emplace(s, index, v) ==
    LET g == grow_sparse_to(s, index)
    IN  IF g.thrown THEN g
        ELSE LET s1 == g.set
             IN  IF has(s1, index)
                 THEN [thrown |-> FALSE,
                       set |-> [s1 EXCEPT !.dense_[s1.sparse_[index] + 1].payload = v]]
                 ELSE LET d1 == Append(s1.dense_, storage)
                          d2 == [d1 EXCEPT ![s1.n + 1] = [index |-> index, payload |-> v]]
                      IN  [thrown |-> FALSE,
                           set |-> [s1 EXCEPT !.dense_ = d2,
                                              !.dense_size = IF @ = s1.n THEN @ + 1 ELSE @,
                                              !.sparse_[index] = s1.n,
                                              !.n = s1.n + 1]]

\* erase that shortens the dense array without the swap
erase_pop_last(s, index) ==
    IF ~has(s, index) THEN s
    ELSE [s EXCEPT !.n = s.n - 1, !.dense_ = SubSeq(@, 1, s.n - 1)]

\* erase that moves the last entry's index into the hole and leaves the
\* payload of the erased entry there
erase_keep_payload(s, index) ==
    IF ~has(s, index) THEN s
    ELSE LET old_idx == s.sparse_[index]
             m       == s.n - 1
             moved   == dense_at(s, m)
         IN  [s EXCEPT !.n = m,
                       !.dense_ = SubSeq([@ EXCEPT ![old_idx + 1].index = moved.index], 1, m),
                       !.sparse_[moved.index] = old_idx,
                       !.sparse_[index] = NPOS]

\* erase without the update of the moved entry's sparse slot
erase_no_retarget(s, index) ==
    IF ~has(s, index) THEN s
    ELSE LET old_idx == s.sparse_[index]
             m       == s.n - 1
         IN  [s EXCEPT !.n = m,
                       !.dense_ = SubSeq([@ EXCEPT ![old_idx + 1] = dense_at(s, m)], 1, m),
                       !.sparse_[index] = NPOS]

erase(s, index) ==
    IF ~has(s, index) THEN s
    ELSE LET old_idx == s.sparse_[index]
             m       == s.n - 1
         IN  IF old_idx /= m
             THEN LET moved == dense_at(s, m)
                  IN  [s EXCEPT !.n = m,
                                !.dense_ = SubSeq([@ EXCEPT ![old_idx + 1] = moved], 1, m),
                                !.sparse_[moved.index] = old_idx,
                                !.sparse_[index] = NPOS]
             ELSE [s EXCEPT !.n = m,
                            !.dense_ = SubSeq(@, 1, m),
                            !.sparse_[index] = NPOS]

\* range(): the owners of dense_[0 .. n), in dense order
range(s) == [i \in 1 .. s.n |-> s.dense_[i].index]

\* the record of a call on a sparse_set
SetCall == [op |-> "none", e |-> 0, v |-> 0, thrown |-> FALSE, had |-> FALSE]

\* a finite map with the entry of k set to v, and with the entry of k removed
put(m, k, v) == [x \in DOMAIN m \cup {k} |-> IF x = k THEN v ELSE m[x]]
drop(m, k) == [x \in DOMAIN m \ {k} |-> m[x]]

Emplace(e, v) ==
    LET res == emplace(set, e, v)
    IN  /\ set' = res.set
        /\ set_call' = [SetCall EXCEPT !.op = "emplace", !.e = e, !.v = v,
                                       !.thrown = res.thrown, !.had = has(set, e)]
        /\ entries' = IF res.thrown THEN entries ELSE put(entries, e, v)

Erase(e) ==
    /\ set' = erase(set, e)
    /\ set_call' = [SetCall EXCEPT !.op = "erase", !.e = e, !.had = has(set, e)]
    /\ entries' = drop(entries, e)

\* emplace and erase with the finite map run beside the set
MapPut(e, v) ==
    /\ Emplace(e, v)
    /\ abstract_map' = put(abstract_map, e, v)

MapDelete(e) ==
    /\ Erase(e)
    /\ abstract_map' = drop(abstract_map, e)

(***************************************************************************)
(* registry: component ids and storages                                    *)
(***************************************************************************)
\* what get_component_id<T>() returns in the current state
get_component_id(t) == IF type_id[t] = 0 THEN next_component_id_ ELSE type_id[t]

\* get_component_id<T>() that reads the counter and does not advance it
RECURSIVE reference_types_shared(_, _, _)
reference_types_shared(tid, next, Ts) ==
    IF Ts = <<>> THEN [type_id |-> tid, next |-> next]
    ELSE LET t == Head(Ts)
         IN  IF tid[t] = 0
             THEN reference_types_shared([tid EXCEPT ![t] = next], next, Tail(Ts))
             ELSE reference_types_shared(tid, next, Tail(Ts))

\* the static state after get_component_id<T>() for each type of Ts, in order
RECURSIVE reference_types(_, _, _)
reference_types(tid, next, Ts) ==
    IF Ts = <<>> THEN [type_id |-> tid, next |-> next]
    ELSE LET t == Head(Ts)
         IN  IF tid[t] = 0
             THEN reference_types([tid EXCEPT ![t] = next], next + 1, Tail(Ts))
             ELSE reference_types(tid, next, Tail(Ts))

\* get_storage<T>() (mutable) for each component id of cids: the map with a
\* storage created where there was none
get_storage(stor, cids) ==
    [c \in DOMAIN stor \cup cids |-> IF c \in DOMAIN stor THEN stor[c] ELSE sparse_set]

\* get_storage<T>() const: the storage of T, or the empty sentinel
get_storage_const(r, t) ==
    IF type_id[t] /= 0 /\ type_id[t] \in DOMAIN component_storages_[r]
    THEN component_storages_[r][type_id[t]]
    ELSE sparse_set

has_component(r, t, e) ==
    /\ type_id[t] /= 0
    /\ type_id[t] \in DOMAIN component_storages_[r]
    /\ has(component_storages_[r][type_id[t]], e)

\* get_component<T>(e): defined only under has_component
get_component(r, t, e) == payload_of(component_storages_[r][type_id[t]], e)

has_all(r, Ts, e) == \A i \in 1 .. Len(Ts) : has_component(r, Ts[i], e)

\* the component types with a registered storage
registered(r) == {t \in Types : type_id[t] /= 0 /\ type_id[t] \in DOMAIN component_storages_[r]}

(***************************************************************************)
(* registry: entity lifecycle                                              *)
(***************************************************************************)
\* new_entity taking the oldest recycled id instead of the newest
new_entity_fifo(free, next) ==
    IF free /= <<>>
    THEN [e |-> free[1], free |-> Tail(free), next |-> next, recycled |-> TRUE]
    ELSE [e |-> next + 1, free |-> free, next |-> next + 1, recycled |-> FALSE]

new_entity(free, next) ==
    IF free /= <<>>
    THEN [e |-> free[Len(free)], free |-> SubSeq(free, 1, Len(free) - 1),
          next |-> next, recycled |-> TRUE]
    ELSE [e |-> next + 1, free |-> free, next |-> next + 1, recycled |-> FALSE]

\* remove_entity that recycles the id and leaves its components in place
remove_entity_keep(stor, free, e) ==
    [storages |-> stor, free |-> Append(free, e)]

remove_entity(stor, free, e) ==
    [storages |-> [c \in DOMAIN stor |-> erase(stor[c], e)],
     free     |-> Append(free, e)]

\* the record of a call: the operation, the arguments and results the
\* properties below read; a field a call does not set keeps its value here
Call == [op |-> "none", r |-> 0, e |-> 0, t |-> "", v |-> 0, Ts |-> <<>>,
         null |-> FALSE, outcome |-> "returned",
         thrown |-> FALSE, had |-> FALSE, recycled |-> FALSE, visited |-> <<>>]

\* seq without its last element equal to x
RECURSIVE drop_last(_, _)
drop_last(seq, x) ==
    IF seq = <<>> THEN <<>>
    ELSE IF seq[Len(seq)] = x THEN SubSeq(seq, 1, Len(seq) - 1)
    ELSE Append(drop_last(SubSeq(seq, 1, Len(seq) - 1), x), seq[Len(seq)])

\* the history of the entity lifecycle, kept by SpecLifecycle
history == <<pending, minted, run>>
\* the sparse_set used on its own
standalone == <<set, set_call, entries>>
\* the payloads by the calls made, kept by SpecQuery, and the map of SpecMap
ledger == <<stored, abstract_map>>
\* the threads of SpecIds
concurrent == <<guard, threads>>
\* the thread pool
pool == <<tasks_, stop_requested_, queue_mutex_, workers, producers, caller, log>>
\* the registries and the static counters
registries == <<next_entity_, next_component_id_, type_id, free_entities_,
                component_storages_, last>>

NewEntity(r) ==
    LET res == new_entity(free_entities_[r], next_entity_)
    IN  /\ res.next <= MaxEntity
        /\ free_entities_' = [free_entities_ EXCEPT ![r] = res.free]
        /\ next_entity_' = res.next
        /\ last' = [Call EXCEPT !.op = "new_entity", !.r = r, !.e = res.e,
                                !.recycled = res.recycled]
        /\ UNCHANGED <<next_component_id_, type_id, component_storages_>>

RemoveEntity(r, e) ==
    LET res == remove_entity(component_storages_[r], free_entities_[r], e)
    IN  /\ component_storages_' = [component_storages_ EXCEPT ![r] = res.storages]
        /\ free_entities_' = [free_entities_ EXCEPT ![r] = res.free]
        /\ last' = [Call EXCEPT !.op = "remove_entity", !.r = r, !.e = e,
                                !.had = \E t \in Types : has_component(r, t, e)]
        /\ UNCHANGED <<next_entity_, next_component_id_, type_id>>

\* NewEntity with the history of the call
TrackNewEntity(r) ==
    /\ NewEntity(r)
    /\ pending' = [pending EXCEPT ![r] = drop_last(@, last'.e)]
    /\ minted' = [minted EXCEPT ![r] = IF last'.recycled THEN @ ELSE @ + 1]
    /\ run' = [run EXCEPT ![r] = @ \cup {last'.e}]

\* RemoveEntity with the history of the call
TrackRemoveEntity(r, e) ==
    /\ RemoveEntity(r, e)
    /\ pending' = [pending EXCEPT ![r] = Append(@, e)]
    /\ run' = [run EXCEPT ![r] = {}]
    /\ UNCHANGED minted

(***************************************************************************)
(* registry: components                                                    *)
(***************************************************************************)
\* add_component<T>(e, v): get_storage<T>() and then emplace
add_component(tid, next, stor, t, e, v) ==
    LET ids == reference_types(tid, next, <<t>>)
        cid == ids.type_id[t]
        st  == get_storage(stor, {cid})
        res == emplace(st[cid], e, v)
    IN  [type_id |-> ids.type_id, next |-> ids.next, thrown |-> res.thrown,
         storages |-> [st EXCEPT ![cid] = res.set]]

\* remove_component<T>(e): get_storage<T>() and then erase
remove_component(tid, next, stor, t, e) ==
    LET ids == reference_types(tid, next, <<t>>)
        cid == ids.type_id[t]
        st  == get_storage(stor, {cid})
    IN  [type_id |-> ids.type_id, next |-> ids.next,
         storages |-> [st EXCEPT ![cid] = erase(st[cid], e)]]

AddComponent(r, t, e, v) ==
    LET res == add_component(type_id, next_component_id_, component_storages_[r], t, e, v)
    IN  /\ type_id' = res.type_id
        /\ next_component_id_' = res.next
        /\ component_storages_' = [component_storages_ EXCEPT ![r] = res.storages]
        /\ last' = [Call EXCEPT !.op = "add_component", !.r = r, !.e = e, !.t = t, !.v = v,
                                !.thrown = res.thrown]
        /\ UNCHANGED <<next_entity_, free_entities_>>

RemoveComponent(r, t, e) ==
    LET res == remove_component(type_id, next_component_id_, component_storages_[r], t, e)
    IN  /\ type_id' = res.type_id
        /\ next_component_id_' = res.next
        /\ component_storages_' = [component_storages_ EXCEPT ![r] = res.storages]
        /\ last' = [Call EXCEPT !.op = "remove_component", !.r = r]
        /\ UNCHANGED <<next_entity_, free_entities_>>

(***************************************************************************)
(* registry: queries                                                       *)
(***************************************************************************)
\* the driver picked with <= in place of <: of the smallest storages, the
\* one named last
RECURSIVE smallest_last_tie(_, _, _, _)
smallest_last_tie(stor, tid, Ts, best) ==
    IF Ts = <<>> THEN best
    ELSE smallest_last_tie(stor, tid, Tail(Ts),
                  IF size(stor[tid[Head(Ts)]]) <= size(stor[tid[best]]) THEN Head(Ts) ELSE best)

\* the driver view<Ts...> picks: the first type, replaced by each later type
\* whose storage is strictly smaller
RECURSIVE smallest(_, _, _, _)
smallest(stor, tid, Ts, best) ==
    IF Ts = <<>> THEN best
    ELSE smallest(stor, tid, Tail(Ts),
                  IF size(stor[tid[Head(Ts)]]) < size(stor[tid[best]]) THEN Head(Ts) ELSE best)

\* the loop of view<Ts...> without its has_all test
visit_unfiltered(stor, tid, Ts, driver) == range(stor[tid[driver]])

\* the entities the loop of view<Ts...> hands to f when it iterates the
\* storage of `driver`, in the order of the calls
visit(stor, tid, Ts, driver) ==
    LET all(e) == \A i \in 1 .. Len(Ts) : has(stor[tid[Ts[i]]], e)
    IN  SelectSeq(range(stor[tid[driver]]), all)

view(tid, next, stor, Ts) ==
    LET ids == reference_types(tid, next, Ts)
        st  == get_storage(stor, {ids.type_id[Ts[i]] : i \in 1 .. Len(Ts)})
    IN  [type_id |-> ids.type_id, next |-> ids.next, storages |-> st,
         visited |-> visit(st, ids.type_id, Ts, smallest(st, ids.type_id, Ts, Head(Ts)))]

View(r, Ts) ==
    LET res == view(type_id, next_component_id_, component_storages_[r], Ts)
    IN  /\ type_id' = res.type_id
        /\ next_component_id_' = res.next
        /\ component_storages_' = [component_storages_ EXCEPT ![r] = res.storages]
        /\ last' = [Call EXCEPT !.op = "view", !.r = r, !.Ts = Ts, !.visited = res.visited]
        /\ UNCHANGED <<next_entity_, free_entities_>>

\* component_storages_.find(cid) inserting a storage where there is none
find_or_create(stor, cids) == get_storage(stor, cids)

\* component_storages_.find(cid) for each component id of cids: the map
\* after the lookups
find(stor, cids) == stor

HasComponent(r, t, e) ==
    LET ids == reference_types(type_id, next_component_id_, <<t>>)
    IN  /\ type_id' = ids.type_id
        /\ next_component_id_' = ids.next
        /\ component_storages_' =
               [component_storages_ EXCEPT ![r] = find(@, {ids.type_id[t]})]
        /\ last' = [Call EXCEPT !.op = "has_component", !.r = r, !.e = e, !.t = t,
                                !.had = has_component(r, t, e)]
        /\ UNCHANGED <<next_entity_, free_entities_>>

\* try_get_component<T>(e): nullptr, or the address of the payload
try_get_component(r, t, e) ==
    IF type_id[t] = 0 \/ type_id[t] \notin DOMAIN component_storages_[r]
    THEN [null |-> TRUE, payload |-> default_payload]
    ELSE LET st == component_storages_[r][type_id[t]]
         IN  IF has(st, e) THEN [null |-> FALSE, payload |-> payload_of(st, e)]
             ELSE [null |-> TRUE, payload |-> default_payload]

TryGetComponent(r, t, e) ==
    LET ids == reference_types(type_id, next_component_id_, <<t>>)
        res == try_get_component(r, t, e)
    IN  /\ type_id' = ids.type_id
        /\ next_component_id_' = ids.next
        /\ component_storages_' =
               [component_storages_ EXCEPT ![r] = find(@, {ids.type_id[t]})]
        /\ last' = [Call EXCEPT !.op = "try_get_component", !.r = r, !.e = e, !.t = t,
                                !.null = res.null, !.v = res.payload]
        /\ UNCHANGED <<next_entity_, free_entities_>>

\* the types has_all<Ts...>(e) calls has_component for: the fold stops at
\* the first type the entity does not have
RECURSIVE has_all_refs(_, _, _)
has_all_refs(r, Ts, e) ==
    IF Ts = <<>> THEN <<>>
    ELSE IF has_component(r, Head(Ts), e) THEN <<Head(Ts)>> \o has_all_refs(r, Tail(Ts), e)
    ELSE <<Head(Ts)>>

HasAll(r, Ts, e) ==
    LET refs == has_all_refs(r, Ts, e)
        ids  == reference_types(type_id, next_component_id_, refs)
    IN  /\ type_id' = ids.type_id
        /\ next_component_id_' = ids.next
        /\ component_storages_' =
               [component_storages_ EXCEPT
                   ![r] = find(@, {ids.type_id[refs[i]] : i \in 1 .. Len(refs)})]
        /\ last' = [Call EXCEPT !.op = "has_all", !.r = r, !.e = e, !.Ts = Ts,
                                !.had = has_all(r, Ts, e)]
        /\ UNCHANGED <<next_entity_, free_entities_>>

\* operator[]: the payload when has(s, index); otherwise the read of
\* dense_[sparse_[index]] is outside the arrays' contents, and the call
\* either ends the process or returns whatever the memory holds
subscript(s, index) ==
    IF has(s, index)
    THEN {[outcome |-> "returned", payload |-> payload_of(s, index)]}
    ELSE {[outcome |-> "terminated", payload |-> default_payload]}
         \cup {[outcome |-> "returned", payload |-> v] : v \in Payloads \cup {default_payload}}

\* get_component<T>(e): get_storage<T>() and then operator[]
GetComponent(r, t, e) ==
    LET ids == reference_types(type_id, next_component_id_, <<t>>)
        cid == ids.type_id[t]
        st  == get_storage(component_storages_[r], {cid})
    IN  /\ type_id' = ids.type_id
        /\ next_component_id_' = ids.next
        /\ component_storages_' = [component_storages_ EXCEPT ![r] = st]
        /\ \E res \in subscript(st[cid], e) :
               last' = [Call EXCEPT !.op = "get_component", !.r = r, !.e = e, !.t = t,
                                   !.had = has(st[cid], e),
                                   !.outcome = res.outcome, !.v = res.payload]
        /\ UNCHANGED <<next_entity_, free_entities_>>

\* the loop of each<T> started at the second dense entry
visit_each_from_second(s) == [i \in 1 .. s.n - 1 |-> s.dense_[i + 1]]

\* the loop of each<T> over storage.range(): the arguments of the calls of
\* f, in the order of the calls
visit_each(s) == [i \in 1 .. s.n |-> s.dense_[i]]

\* each<T>(f), with an f that leaves the storage alone: get_storage<T>() and
\* then the loop
each(tid, next, stor, t) ==
    LET ids == reference_types(tid, next, <<t>>)
        cid == ids.type_id[t]
        st  == get_storage(stor, {cid})
    IN  [type_id |-> ids.type_id, next |-> ids.next, storages |-> st,
         visited |-> visit_each(st[cid])]

Each(r, t) ==
    LET res == each(type_id, next_component_id_, component_storages_[r], t)
    IN  /\ type_id' = res.type_id
        /\ next_component_id_' = res.next
        /\ component_storages_' = [component_storages_ EXCEPT ![r] = res.storages]
        /\ last' = [Call EXCEPT !.op = "each", !.r = r, !.t = t, !.visited = res.visited]
        /\ UNCHANGED <<next_entity_, free_entities_>>

\* the calls that change components, with the payloads they leave
TrackAddComponent(r, t, e, v) ==
    /\ AddComponent(r, t, e, v)
    /\ stored' = IF last'.thrown THEN stored ELSE [stored EXCEPT ![t] = put(@, e, v)]
    /\ UNCHANGED abstract_map

TrackRemoveComponent(r, t, e) ==
    /\ RemoveComponent(r, t, e)
    /\ stored' = [stored EXCEPT ![t] = drop(@, e)]
    /\ UNCHANGED abstract_map

(***************************************************************************)
(* get_component_id<T>() called by several threads                         *)
(***************************************************************************)
\* a thread outside get_component_id
Thread == [pc |-> "idle", t |-> "", id |-> 0]

\* what the threads' steps leave alone
sequential == <<next_entity_, free_entities_, component_storages_, last>>

\* the guard of a static that lets a thread in while another initialises it
may_initialise_unguarded(g) == g /= "initialised"

\* the guard of `static component_id id`: the thread that finds the variable
\* uninitialised runs the initialiser
may_initialise(g) == g = "uninitialised"

\* a thread calls get_component_id<T>()
CallGetComponentId(th, t) ==
    /\ threads[th].pc \in {"idle", "returned"}
    /\ threads' = [threads EXCEPT ![th] = [pc |-> "declaration", t |-> t, id |-> 0]]
    /\ UNCHANGED <<type_id, next_component_id_, guard>>

\* control passes through the declaration of the static: the thread starts
\* the initialisation, or skips it when it is complete; while another thread
\* is initialising the variable the thread waits here
PassDeclaration(th) ==
    LET t == threads[th].t
    IN  /\ threads[th].pc = "declaration"
        /\ \/ /\ may_initialise(guard[t])
              /\ guard' = [guard EXCEPT ![t] = "initialising"]
              /\ threads' = [threads EXCEPT ![th].pc = "initialiser"]
           \/ /\ guard[t] = "initialised"
              /\ threads' = [threads EXCEPT ![th].pc = "return"]
              /\ UNCHANGED guard
        /\ UNCHANGED <<type_id, next_component_id_>>

\* next_component_id_.fetch_add(1, std::memory_order_relaxed): one atomic
\* read-modify-write
FetchAdd(th) ==
    /\ threads[th].pc = "initialiser"
    /\ threads' = [threads EXCEPT ![th].pc = "store", ![th].id = next_component_id_]
    /\ next_component_id_' = next_component_id_ + 1
    /\ UNCHANGED <<type_id, guard>>

\* the value is stored in the static and the initialisation is complete
StoreId(th) ==
    LET t == threads[th].t
    IN  /\ threads[th].pc = "store"
        /\ type_id' = [type_id EXCEPT ![t] = threads[th].id]
        /\ guard' = [guard EXCEPT ![t] = "initialised"]
        /\ threads' = [threads EXCEPT ![th].pc = "return", ![th].id = 0]
        /\ UNCHANGED next_component_id_

\* return id
ReturnId(th) ==
    /\ threads[th].pc = "return"
    /\ threads' = [threads EXCEPT ![th].pc = "returned", ![th].id = type_id[threads[th].t]]
    /\ UNCHANGED <<type_id, next_component_id_, guard>>

(***************************************************************************)
(* thread_pool (thread_pool.hpp)                                           *)
(***************************************************************************)
\* a worker thread at the top of worker_loop, right after start()
Worker == [pc |-> "loop", task |-> 0, stoken |-> FALSE]

\* the thread that may call shutdown: where it is in the call, the jthread
\* it is destroying and the jthreads it has destroyed
Caller == [pc |-> "idle", joining |-> 0, destroyed |-> {}]

\* nothing enqueued yet: the number of enqueue calls, the number of tasks
\* accepted (a task is named by its position in the order of acceptance),
\* the tasks taken from the queue with the worker that took each, and the
\* tasks run, both in the order of the events
Log == [calls |-> 0, accepted |-> 0, taken |-> <<>>, executed |-> <<>>]

\* what the pool's steps leave alone
ecs == <<registries, history, standalone, ledger, concurrent>>

\* cv_.notify_all(): every thread blocked in cv_.wait is woken
notify_all(ws) ==
    [w \in DOMAIN ws |-> IF ws[w].pc = "blocked" THEN [ws[w] EXCEPT !.pc = "woken"] ELSE ws[w]]

\* the predicate of cv_.wait
wait_predicate(w) == stop_requested_ \/ tasks_ /= <<>> \/ workers[w].stoken

\* while (!stoken.stop_requested())
LoopTest(w) ==
    /\ workers[w].pc = "loop"
    /\ workers' = [workers EXCEPT ![w].pc = IF workers[w].stoken THEN "exited" ELSE "lock"]
    /\ UNCHANGED <<tasks_, stop_requested_, queue_mutex_, producers, caller, log>>

\* std::unique_lock lock(queue_mutex_), and the lock taken again by a
\* thread that was woken in cv_.wait
Lock(w) ==
    /\ workers[w].pc \in {"lock", "woken"}
    /\ queue_mutex_ = "free"
    /\ queue_mutex_' = "held"
    /\ workers' = [workers EXCEPT ![w].pc = "wait"]
    /\ UNCHANGED <<tasks_, stop_requested_, producers, caller, log>>

\* cv_.wait(lock, pred) evaluates pred with the mutex held: it returns when
\* pred is true and goes on to block when it is false
WaitTest(w) ==
    /\ workers[w].pc = "wait"
    /\ workers' = [workers EXCEPT ![w].pc = IF wait_predicate(w) THEN "check" ELSE "block"]
    /\ UNCHANGED <<tasks_, stop_requested_, queue_mutex_, producers, caller, log>>

\* cv_.wait releases the mutex and blocks the thread, in one step
Block(w) ==
    /\ workers[w].pc = "block"
    /\ queue_mutex_' = "free"
    /\ workers' = [workers EXCEPT ![w].pc = "blocked"]
    /\ UNCHANGED <<tasks_, stop_requested_, producers, caller, log>>

\* a wait on a condition variable may return without a notification
SpuriousWake(w) ==
    /\ workers[w].pc = "blocked"
    /\ workers' = [workers EXCEPT ![w].pc = "woken"]
    /\ UNCHANGED <<tasks_, stop_requested_, queue_mutex_, producers, caller, log>>

\* a worker that takes the task at the back of the queue
take_back(q) == [task |-> q[Len(q)], rest |-> SubSeq(q, 1, Len(q) - 1)]

\* task = std::move(tasks_.front()); tasks_.pop()
take(q) == [task |-> Head(q), rest |-> Tail(q)]

\* after the wait, with the mutex held: return, or take a task, or continue;
\* each leaves the scope of the lock
Check(w) ==
    /\ workers[w].pc = "check"
    /\ queue_mutex_' = "free"
    /\ IF (stop_requested_ /\ tasks_ = <<>>) \/ workers[w].stoken
       THEN /\ workers' = [workers EXCEPT ![w].pc = "exited"]
            /\ UNCHANGED <<tasks_, log>>
       ELSE IF tasks_ /= <<>>
       THEN LET t == take(tasks_)
            IN  /\ tasks_' = t.rest
                /\ workers' = [workers EXCEPT ![w].pc = "run", ![w].task = t.task]
                /\ log' = [log EXCEPT !.taken = Append(@, [task |-> t.task, worker |-> w])]
       ELSE /\ workers' = [workers EXCEPT ![w].pc = "loop"]
            /\ UNCHANGED <<tasks_, log>>
    /\ UNCHANGED <<stop_requested_, producers, caller>>

\* task(), outside the lock
Run(w) ==
    /\ workers[w].pc = "run"
    /\ log' = [log EXCEPT !.executed = Append(@, workers[w].task)]
    /\ workers' = [workers EXCEPT ![w].pc = "loop", ![w].task = 0]
    /\ UNCHANGED <<tasks_, stop_requested_, queue_mutex_, producers, caller>>

\* a thread calls enqueue
CallEnqueue(p) ==
    /\ producers[p] \in {"idle", "returned", "threw"}
    /\ producers' = [producers EXCEPT ![p] = "lock"]
    /\ log' = [log EXCEPT !.calls = @ + 1]
    /\ UNCHANGED <<tasks_, stop_requested_, queue_mutex_, workers, caller>>

\* std::scoped_lock lock(queue_mutex_)
EnqueueLock(p) ==
    /\ producers[p] = "lock"
    /\ queue_mutex_ = "free"
    /\ queue_mutex_' = "held"
    /\ producers' = [producers EXCEPT ![p] = "locked"]
    /\ UNCHANGED <<tasks_, stop_requested_, workers, caller, log>>

\* with the mutex held: throw when the pool is stopped, else put the task
\* at the back of the queue; each leaves the scope of the lock
EnqueueTask(p) ==
    /\ producers[p] = "locked"
    /\ queue_mutex_' = "free"
    /\ IF stop_requested_
       THEN /\ producers' = [producers EXCEPT ![p] = "threw"]
            /\ UNCHANGED <<tasks_, log>>
       ELSE /\ tasks_' = Append(tasks_, log.accepted + 1)
            /\ log' = [log EXCEPT !.accepted = @ + 1]
            /\ producers' = [producers EXCEPT ![p] = "notify"]
    /\ UNCHANGED <<stop_requested_, workers, caller>>

\* cv_.notify_one(): one of the threads blocked in cv_.wait is woken, if
\* there is one; then the call returns the future
NotifyOne(p) ==
    /\ producers[p] = "notify"
    /\ producers' = [producers EXCEPT ![p] = "returned"]
    /\ IF \E w \in PoolWorkers : workers[w].pc = "blocked"
       THEN \E w \in PoolWorkers :
               /\ workers[w].pc = "blocked"
               /\ workers' = [workers EXCEPT ![w].pc = "woken"]
       ELSE UNCHANGED workers
    /\ UNCHANGED <<tasks_, stop_requested_, queue_mutex_, caller, log>>

\* a thread calls shutdown
CallShutdown ==
    /\ caller.pc = "idle"
    /\ caller' = [caller EXCEPT !.pc = "store"]
    /\ UNCHANGED <<tasks_, stop_requested_, queue_mutex_, workers, producers, log>>

\* stop_requested_.store(true), without the mutex
StoreStop ==
    /\ caller.pc = "store"
    /\ stop_requested_' = TRUE
    /\ caller' = [caller EXCEPT !.pc = "notify"]
    /\ UNCHANGED <<tasks_, queue_mutex_, workers, producers, log>>

\* cv_.notify_all()
NotifyAll ==
    /\ caller.pc = "notify"
    /\ workers' = notify_all(workers)
    /\ caller' = [caller EXCEPT !.pc = "clear"]
    /\ UNCHANGED <<tasks_, stop_requested_, queue_mutex_, producers, log>>

\* threads_.clear() destroys the jthreads one after another, in an order
\* the library chooses: ~jthread() calls request_stop() ...
RequestStop(w) ==
    /\ caller.pc = "clear"
    /\ w \notin caller.destroyed
    /\ workers' = [workers EXCEPT ![w].stoken = TRUE]
    /\ caller' = [caller EXCEPT !.pc = "join", !.joining = w]
    /\ UNCHANGED <<tasks_, stop_requested_, queue_mutex_, producers, log>>

\* ... and then join(), which returns when the thread has left worker_loop;
\* after the last one shutdown returns
Join ==
    /\ caller.pc = "join"
    /\ workers[caller.joining].pc = "exited"
    /\ LET done == caller.destroyed \cup {caller.joining}
       IN  caller' = [pc |-> IF done = PoolWorkers THEN "returned" ELSE "clear",
                      joining |-> 0, destroyed |-> done]
    /\ UNCHANGED <<tasks_, stop_requested_, queue_mutex_, workers, producers, log>>

(***************************************************************************)
(* Specifications                                                          *)
(***************************************************************************)
Init ==
    /\ next_entity_ = 0
    /\ next_component_id_ = 1
    /\ type_id = [t \in Types |-> 0]
    /\ free_entities_ = [r \in Registries |-> <<>>]
    /\ component_storages_ = [r \in Registries |-> <<>>]
    /\ last = Call
    /\ pending = [r \in Registries |-> <<>>]
    /\ minted = [r \in Registries |-> 0]
    /\ run = [r \in Registries |-> {}]
    /\ set = sparse_set
    /\ set_call = SetCall
    /\ entries = <<>>
    /\ abstract_map = <<>>
    /\ stored = [t \in Types |-> <<>>]
    /\ guard = [t \in Types |-> "uninitialised"]
    /\ threads = [th \in Threads |-> Thread]
    /\ tasks_ = <<>>
    /\ stop_requested_ = FALSE
    /\ queue_mutex_ = "free"
    /\ workers = [w \in PoolWorkers |-> Worker]
    /\ producers = [p \in Producers |-> "idle"]
    /\ caller = Caller
    /\ log = Log

\* the type lists of the view queries
Queries == {<<"Position", "Velocity">>, <<"Velocity", "Position">>}

\* one registry with two component types
Next ==
    \/ NewEntity(1) /\ UNCHANGED <<history, standalone, ledger, concurrent, pool>>
    \/ \E e \in Handles :
          /\ Len(free_entities_[1]) < MaxRecycle
          /\ RemoveEntity(1, e) /\ UNCHANGED <<history, standalone, ledger, concurrent, pool>>
    \/ \E t \in Types, e \in Entities :
          AddComponent(1, t, e, 1) /\ UNCHANGED <<history, standalone, ledger, concurrent, pool>>
    \/ \E t \in Types, e \in Entities :
          RemoveComponent(1, t, e) /\ UNCHANGED <<history, standalone, ledger, concurrent, pool>>
    \/ \E Ts \in Queries : View(1, Ts) /\ UNCHANGED <<history, standalone, ledger, concurrent, pool>>

Spec == Init /\ [][Next]_vars

\* one registry with one component type, several payload values and entity
\* indices up to the capacity limit
NextPayload ==
    \/ \E e \in FarEntities, v \in Payloads :
          AddComponent(1, "Position", e, v) /\ UNCHANGED <<history, standalone, ledger, concurrent, pool>>
    \/ \E e \in FarEntities :
          RemoveComponent(1, "Position", e) /\ UNCHANGED <<history, standalone, ledger, concurrent, pool>>

SpecPayload == Init /\ [][NextPayload]_vars

\* the registries of one process, entity lifecycle with its history
NextLifecycle ==
    \/ \E r \in Registries : TrackNewEntity(r) /\ UNCHANGED <<standalone, ledger, concurrent, pool>>
    \/ \E r \in Registries, e \in Handles :
          /\ Len(free_entities_[r]) < MaxFree
          /\ TrackRemoveEntity(r, e) /\ UNCHANGED <<standalone, ledger, concurrent, pool>>

SpecLifecycle == Init /\ [][NextLifecycle]_vars

\* a sparse_set<T> on its own
NextSet ==
    \/ \E e \in FarEntities, v \in Payloads : Emplace(e, v) /\ UNCHANGED <<registries, history, ledger, concurrent, pool>>
    \/ \E e \in FarEntities : Erase(e) /\ UNCHANGED <<registries, history, ledger, concurrent, pool>>

SpecSet == Init /\ [][NextSet]_vars

\* the entity indices of FarEntities within capacity: index + 1 is at most
\* max_capacity
WithinCapacity == {e \in FarEntities : e + 1 <= max_capacity}

\* a sparse_set<T> and a finite map, given the same calls with indices
\* within capacity
NextMap ==
    \/ \E e \in WithinCapacity, v \in Payloads :
          MapPut(e, v) /\ UNCHANGED <<registries, history, stored, concurrent, pool>>
    \/ \E e \in WithinCapacity :
          MapDelete(e) /\ UNCHANGED <<registries, history, stored, concurrent, pool>>

SpecMap == Init /\ [][NextMap]_vars

\* the process runs until an out-of-bounds read ends it
running == last.outcome /= "terminated"

\* one registry with two component types and two payload values: the calls
\* that change components and the calls that read them
NextQuery ==
    \/ \E t \in Types, e \in Entities, v \in Payloads :
          /\ running
          /\ TrackAddComponent(1, t, e, v)
          /\ UNCHANGED <<history, standalone, concurrent, pool>>
    \/ \E t \in Types, e \in Entities :
          /\ running
          /\ TrackRemoveComponent(1, t, e)
          /\ UNCHANGED <<history, standalone, concurrent, pool>>
    \/ \E t \in Types, e \in Entities :
          /\ running
          /\ HasComponent(1, t, e)
          /\ UNCHANGED <<history, standalone, ledger, concurrent, pool>>
    \/ \E t \in Types, e \in Entities :
          /\ running
          /\ TryGetComponent(1, t, e)
          /\ UNCHANGED <<history, standalone, ledger, concurrent, pool>>
    \/ \E Ts \in Queries, e \in Entities :
          /\ running
          /\ HasAll(1, Ts, e)
          /\ UNCHANGED <<history, standalone, ledger, concurrent, pool>>
    \/ \E t \in Types, e \in Entities :
          /\ running
          /\ GetComponent(1, t, e)
          /\ UNCHANGED <<history, standalone, ledger, concurrent, pool>>
    \/ \E Ts \in Queries :
          /\ running
          /\ View(1, Ts)
          /\ UNCHANGED <<history, standalone, ledger, concurrent, pool>>
    \/ \E t \in Types :
          /\ running
          /\ Each(1, t)
          /\ UNCHANGED <<history, standalone, ledger, concurrent, pool>>

SpecQuery == Init /\ [][NextQuery]_vars

\* one registry with two component types of up to three entities each, and
\* the view queries over them
NextView ==
    \/ \E t \in Types, e \in ViewEntities :
          AddComponent(1, t, e, 1) /\ UNCHANGED <<history, standalone, ledger, concurrent, pool>>
    \/ \E t \in Types, e \in ViewEntities :
          RemoveComponent(1, t, e) /\ UNCHANGED <<history, standalone, ledger, concurrent, pool>>
    \/ \E Ts \in Queries : View(1, Ts) /\ UNCHANGED <<history, standalone, ledger, concurrent, pool>>

SpecView == Init /\ [][NextView]_vars

\* three threads calling get_component_id<T>() for two component types
NextIds ==
    \/ \E th \in Threads, t \in Types :
          CallGetComponentId(th, t) /\ UNCHANGED <<sequential, history, standalone, ledger, pool>>
    \/ \E th \in Threads :
          PassDeclaration(th) /\ UNCHANGED <<sequential, history, standalone, ledger, pool>>
    \/ \E th \in Threads :
          FetchAdd(th) /\ UNCHANGED <<sequential, history, standalone, ledger, pool>>
    \/ \E th \in Threads :
          StoreId(th) /\ UNCHANGED <<sequential, history, standalone, ledger, pool>>
    \/ \E th \in Threads :
          ReturnId(th) /\ UNCHANGED <<sequential, history, standalone, ledger, pool>>

SpecIds == Init /\ [][NextIds]_vars

\* the steps of a worker thread that the scheduler runs
WorkerStep(w) == LoopTest(w) \/ WaitTest(w) \/ Block(w) \/ Check(w) \/ Run(w)

\* the steps of an enqueue call under way
EnqueueStep(p) == EnqueueTask(p) \/ NotifyOne(p)

\* the steps of a shutdown call under way
ShutdownStep == StoreStop \/ NotifyAll \/ (\E w \in PoolWorkers : RequestStop(w)) \/ Join

\* a thread pool of two workers, two threads that call enqueue and one that
\* calls shutdown
NextPool ==
    \/ \E w \in PoolWorkers : LoopTest(w) /\ UNCHANGED ecs
    \/ \E w \in PoolWorkers : Lock(w) /\ UNCHANGED ecs
    \/ \E w \in PoolWorkers : WaitTest(w) /\ UNCHANGED ecs
    \/ \E w \in PoolWorkers : Block(w) /\ UNCHANGED ecs
    \/ \E w \in PoolWorkers : SpuriousWake(w) /\ UNCHANGED ecs
    \/ \E w \in PoolWorkers : Check(w) /\ UNCHANGED ecs
    \/ \E w \in PoolWorkers : Run(w) /\ UNCHANGED ecs
    \/ \E p \in Producers :
          /\ log.calls < MaxTasks
          /\ CallEnqueue(p) /\ UNCHANGED ecs
    \/ \E p \in Producers : EnqueueLock(p) /\ UNCHANGED ecs
    \/ \E p \in Producers : EnqueueTask(p) /\ UNCHANGED ecs
    \/ \E p \in Producers : NotifyOne(p) /\ UNCHANGED ecs
    \/ CallShutdown /\ UNCHANGED ecs
    \/ StoreStop /\ UNCHANGED ecs
    \/ NotifyAll /\ UNCHANGED ecs
    \/ \E w \in PoolWorkers : RequestStop(w) /\ UNCHANGED ecs
    \/ Join /\ UNCHANGED ecs

SpecPool == Init /\ [][NextPool]_vars

\* the scheduler runs every thread that can take a step, and a thread that
\* keeps asking for the mutex gets it; nothing makes a thread call enqueue
\* or shutdown, and nothing makes a wait return without a notification
Fairness ==
    /\ \A w \in PoolWorkers : WF_vars(WorkerStep(w) /\ UNCHANGED ecs)
    /\ \A w \in PoolWorkers : SF_vars(Lock(w) /\ UNCHANGED ecs)
    /\ \A p \in Producers : WF_vars(EnqueueStep(p) /\ UNCHANGED ecs)
    /\ \A p \in Producers : SF_vars(EnqueueLock(p) /\ UNCHANGED ecs)
    /\ WF_vars(ShutdownStep /\ UNCHANGED ecs)

SpecPoolFair == Init /\ [][NextPool]_vars /\ Fairness

(***************************************************************************)
(* Properties                                                              *)
(***************************************************************************)
ToSet(seq) == {seq[i] : i \in 1 .. Len(seq)}
NoRepeat(seq) == \A i, j \in 1 .. Len(seq) : i /= j => seq[i] /= seq[j]

\* C1: after any sequence of new_entity and remove_entity calls, no free
\* list holds the same id twice.
FreeListDistinct ==
    \A r \in Registries : NoRepeat(free_entities_[r])

\* what view<A, B> must visit: the entities present in every storage of Ts
InAll(r, Ts) == {e \in Indices : has_all(r, Ts, e)}

\* C2: view<A, B>(f) calls f exactly once for every entity present in both
\* storages and for no other entity, and the loop visits the same set of
\* entities whichever storage drives it and in whichever order the types
\* are named.
ViewVisitsIntersection ==
    last.op = "view" =>
        LET Ts == last.Ts
            st == component_storages_[last.r]
            swapped == view(type_id, next_component_id_, st, <<Ts[2], Ts[1]>>).visited
        IN  /\ NoRepeat(last.visited)
            /\ ToSet(last.visited) = InAll(last.r, Ts)
            /\ \A i \in 1 .. Len(Ts) :
                  /\ NoRepeat(visit(st, type_id, Ts, Ts[i]))
                  /\ ToSet(visit(st, type_id, Ts, Ts[i])) = ToSet(last.visited)
            /\ NoRepeat(swapped)
            /\ ToSet(swapped) = ToSet(last.visited)

\* a view that visited an entity while another entity is in only one of the
\* two storages
ViewFiltered ==
    /\ last.op = "view"
    /\ last.visited /= <<>>
    /\ \E e \in Entities :
          has_component(1, "Position", e) /= has_component(1, "Velocity", e)

\* C3: after remove_entity(e) has_component<T>(e) is false for every type
\* T, and a false has_component<T>(e) stays false through every call other
\* than add_component<T>(e, ...), new_entity handing the id e out again
\* included.
NoLeakOnReuse ==
    [][\A r \in Registries, e \in Indices, t \in Types :
        /\ (last'.op = "remove_entity" /\ last'.r = r /\ last'.e = e)
              => ~has_component(r, t, e)'
        /\ (/\ ~has_component(r, t, e)
            /\ ~(last'.op = "add_component" /\ last'.r = r /\ last'.e = e /\ last'.t = t))
              => ~has_component(r, t, e)']_vars

\* remove_entity on an entity that carried a component
RemovedWithComponents ==
    /\ last.op = "remove_entity"
    /\ last.had

\* C4: the ids returned by consecutive new_entity calls with no
\* remove_entity call in between are pairwise distinct.
FreshRunDistinct ==
    [][\A r \in Registries :
        (last'.op = "new_entity" /\ last'.r = r) => last'.e \notin run[r]]_vars

\* C5: for every entity e within capacity, add_component<T>(e, v) succeeds
\* and get_component<T>(e) then returns v.
AddThenGet ==
    (last.op = "add_component" /\ last.e < max_capacity) =>
        /\ ~last.thrown
        /\ has_component(last.r, last.t, last.e)
        /\ get_component(last.r, last.t, last.e) = last.v

\* the round trip of an add_component call that returned
AddThenGetOnReturn ==
    (last.op = "add_component" /\ ~last.thrown) =>
        /\ has_component(last.r, last.t, last.e)
        /\ get_component(last.r, last.t, last.e) = last.v

\* C6: the k-th id a registry mints is k, whatever other registries do.
MintedInOrder ==
    (last.op = "new_entity" /\ ~last.recycled) => last.e = minted[last.r]

\* C7: while a remove_entity call is unanswered, new_entity returns the id
\* of the most recent unanswered one and leaves the fresh-id counter alone;
\* it mints the next id only when none is left.
RecycleLifo ==
    [][\A r \in Registries :
        (last'.op = "new_entity" /\ last'.r = r) =>
            IF free_entities_[r] /= <<>>
            THEN /\ pending[r] /= <<>>
                 /\ last'.e = pending[r][Len(pending[r])]
                 /\ last'.recycled
                 /\ next_entity_' = next_entity_
            ELSE /\ pending[r] = <<>>
                 /\ ~last'.recycled
                 /\ last'.e = next_entity_ + 1
                 /\ next_entity_' = next_entity_ + 1]_vars

\* new_entity recycled an id while an older removal of another id is still
\* unanswered
RecycledNewest ==
    /\ last.op = "new_entity"
    /\ last.recycled
    /\ pending[last.r] /= <<>>
    /\ pending[last.r][1] /= last.e

\* what a caller can observe of the storage of t: its size, the entities
\* present and their payloads
Observed(r, t) ==
    LET s == get_storage_const(r, t)
        present == {e \in Indices : has(s, e)}
    IN  [size |-> size(s), present |-> present,
         payload |-> [e \in present |-> payload_of(s, e)]]

FailedAddLeavesRegistry ==
    [][\A r \in Registries :
        (last'.op = "add_component" /\ last'.r = r /\ last'.thrown) =>
            /\ registered(r)' = registered(r)
            /\ component_storages_'[r] = component_storages_[r]
            /\ free_entities_'[r] = free_entities_[r]]_vars

\* C10: emplace(e, v) throws exactly when e + 1 exceeds max_capacity.
CapacityErrorExact ==
    set_call.op = "emplace" => (set_call.thrown <=> set_call.e + 1 > max_capacity)

\* C11: after any sequence of emplace and erase calls, those that grow the
\* sparse array and those that throw included, every entity the calls left
\* in the set has a sparse slot that names an index below n, and the dense
\* entry at that index is owned by the entity.
SparseDenseAgree ==
    \A e \in DOMAIN entries :
        /\ e < set.sparse_size
        /\ set.sparse_[e] /= NPOS
        /\ set.sparse_[e] < set.n
        /\ dense_at(set, set.sparse_[e]).index = e

\* an erase has removed an entry from a set whose sparse array has grown,
\* and two entries are left
ErasedAfterGrowth ==
    /\ set_call.op = "erase" /\ set_call.had
    /\ set.n >= 2
    /\ set.sparse_size > initial_sparse_size

\* C12: in every state n is at most the length of the dense array, and
\* the length of the sparse array is at most max_capacity.
SizesWithinBounds ==
    /\ set.n <= set.dense_size
    /\ set.sparse_size <= max_capacity

\* an emplace has thrown on a set whose sparse array has grown past half of
\* max_capacity and whose dense array is longer than n
ThrownOnGrownSet ==
    /\ set_call.op = "emplace" /\ set_call.thrown
    /\ set.sparse_size * 2 > max_capacity
    /\ set.n < set.dense_size

\* what a caller can see of a sparse_set: its size, has() of every index,
\* the payload of every index it has, and the entries in iteration order
observable(s) ==
    [size    |-> size(s),
     has     |-> [e \in Indices |-> has(s, e)],
     payload |-> [e \in {x \in Indices : has(s, x)} |-> payload_of(s, e)],
     range   |-> [i \in 1 .. s.n |-> s.dense_[i]]]

\* C13: erase(e) called again on the set an erase(e) returned leaves what a
\* caller can see as the first call left it, and erase of an entity the set
\* does not have changes nothing a caller can see.
EraseIdempotent ==
    [][set_call'.op = "erase" =>
          /\ observable(erase(set', set_call'.e)) = observable(set')
          /\ ~set_call'.had => observable(set') = observable(set)]_vars

\* an erase has found its entity absent in a set that holds others
ErasedAbsent ==
    /\ set_call.op = "erase" /\ ~set_call.had
    /\ set_call.e \notin DOMAIN entries
    /\ set.n >= 2

\* C20: erase(e) on a set that has e leaves the size one less and e
\* absent, and every other entity the set had is still there with the
\* payload it had; so too when e owns the last dense entry or the only one.
EraseFrame ==
    [][(set_call'.op = "erase" /\ set_call'.had) =>
          LET e == set_call'.e
          IN  /\ size(set') = size(set) - 1
              /\ ~has(set', e)
              /\ \A x \in Indices \ {e} :
                     has(set, x) => has(set', x) /\ payload_of(set', x) = payload_of(set, x)]_vars

\* an erase has removed an entry and left two entries with different
\* payloads
ErasedAmongOthers ==
    /\ set_call.op = "erase" /\ set_call.had
    /\ \E x, y \in DOMAIN entries :
           /\ has(set, x) /\ has(set, y)
           /\ payload_of(set, x) = 1 /\ payload_of(set, y) = 2

\* an erase has removed the only entry
ErasedOnlyEntry == set_call.op = "erase" /\ set_call.had /\ set.n = 0

\* C14: has_component, try_get_component and has_all create no storage:
\* the component types with a registered storage, and the storages, are
\* after the call what they were before; and for a type no add_component
\* has left an entry of, they report false / null.
QueriesCreateNoStorage ==
    [][last'.op \in {"has_component", "try_get_component", "has_all"} =>
          /\ registered(1)' = registered(1)
          /\ component_storages_' = component_storages_
          /\ (last'.op = "has_component" /\ stored[last'.t] = <<>>) => ~last'.had
          /\ (last'.op = "try_get_component" /\ stored[last'.t] = <<>>) => last'.null
          /\ (last'.op = "has_all" /\ \E i \in 1 .. Len(last'.Ts) : stored[last'.Ts[i]] = <<>>)
                 => ~last'.had]_vars

\* has_component has answered for a type that was given its id by the query
\* and has no storage, on a registry that has a storage of another type
QueriedUnregisteredType ==
    /\ last.op = "has_component" /\ ~last.had
    /\ type_id[last.t] /= 0
    /\ last.t \notin registered(1)
    /\ registered(1) /= {}

\* C15: get_component<T>(e) on an entity that does not have T ends the
\* process with a failure and returns no payload.
UncheckedGetFailsLoudly ==
    (last.op = "get_component" /\ ~last.had) => last.outcome = "terminated"

\* C16: try_get_component<T>(e) returns null exactly when has_component<T>(e)
\* is false, that is when no add_component<T> has left an entry for e, and
\* otherwise the payload the latest add_component<T>(e, v) stored; it does
\* not throw or end the process for any entity and type.
TryGetMatchesStored ==
    last.op = "try_get_component" =>
        /\ last.outcome = "returned" /\ ~last.thrown
        /\ last.null <=> ~has_component(last.r, last.t, last.e)
        /\ last.null <=> last.e \notin DOMAIN stored[last.t]
        /\ ~last.null => last.v = stored[last.t][last.e]

\* try_get_component has returned the payload 2 of an entity while another
\* entity holds the payload 1 of the same type
TryGetReturnedLatest ==
    /\ last.op = "try_get_component" /\ ~last.null /\ last.v = 2
    /\ \E e \in DOMAIN stored[last.t] : e /= last.e /\ stored[last.t][e] = 1

\* try_get_component has returned null for an index beyond the sparse array
TryGetBeyondSparse ==
    /\ last.op = "try_get_component" /\ last.null
    /\ last.t \in registered(1)
    /\ last.e >= get_storage_const(1, last.t).sparse_size

\* the component types that have been given an id
referenced == {t \in Types : type_id[t] /= 0}

\* C17: component ids are the integers from 1 in the order of first
\* reference: a call keeps the id of every type referenced before it, gives
\* the types it references first the next integers after the ids in use,
\* in the order of its type list, and gives no id to two types.
TypeIdsInOrder ==
    [][LET new == referenced' \ referenced
           k   == Cardinality(referenced)
       IN  /\ \A t \in referenced : type_id'[t] = type_id[t]
           /\ {type_id'[t] : t \in new} = (k + 1) .. (k + Cardinality(new))
           /\ \A t, u \in referenced' : t /= u => type_id'[t] /= type_id'[u]
           /\ \A i, j \in 1 .. Len(last'.Ts) :
                  (i < j /\ last'.Ts[i] \in new /\ last'.Ts[j] \in new)
                      => type_id'[last'.Ts[i]] < type_id'[last'.Ts[j]]]_vars

\* a view call has made the first reference to both of its types, and the
\* type named first has the id 1 and the other the id 2
BothTypesReferencedByView ==
    /\ last.op = "view"
    /\ next_component_id_ = 3
    /\ component_storages_[1] = [c \in {1, 2} |-> sparse_set]
    /\ type_id[last.Ts[1]] = 1 /\ type_id[last.Ts[2]] = 2

\* the component types whose initialiser has taken its value from the
\* counter
fetched ==
    {t \in Types : \/ guard[t] = "initialised"
                   \/ \E th \in Threads : threads[th].pc = "store" /\ threads[th].t = t}

\* C18: under every interleaving of the threads' calls, two component types
\* never have the same id, the threads that have returned from the call for
\* one type hold the same id, which is the type's, and the counter has
\* advanced by one for each type that took its id from it.
IdsUnderRace ==
    /\ \A t, u \in referenced : t /= u => type_id[t] /= type_id[u]
    /\ \A th \in Threads :
           threads[th].pc = "returned"
               => threads[th].id /= 0 /\ threads[th].id = type_id[threads[th].t]
    /\ \A th, uh \in Threads :
           (threads[th].pc = "returned" /\ threads[uh].pc = "returned"
                /\ threads[th].t = threads[uh].t) => threads[th].id = threads[uh].id
    /\ next_component_id_ = 1 + Cardinality(fetched)

\* two threads have returned from the call for one type and the third from
\* the call for the other type, which has the id 1
ThreeThreadsReturned ==
    /\ \A th \in Threads : threads[th].pc = "returned"
    /\ threads[1].t = threads[2].t
    /\ threads[3].t /= threads[1].t
    /\ threads[3].id = 1

\* the storage of component type t in the registry r
storage_of(r, t) == component_storages_[r][type_id[t]]

\* C19: view<T1..Tn> iterates the storage with the fewest entries among the
\* types named, the first named of them when several have the fewest, and
\* calls the visitor in the dense order of that storage.
ViewDrivesFromSmallest ==
    last.op = "view" =>
        LET Ts     == last.Ts
            r      == last.r
            least  == CHOOSE k \in {size(storage_of(r, Ts[i])) : i \in 1 .. Len(Ts)} :
                          \A i \in 1 .. Len(Ts) : k <= size(storage_of(r, Ts[i]))
            first  == CHOOSE i \in 1 .. Len(Ts) :
                          /\ size(storage_of(r, Ts[i])) = least
                          /\ \A j \in 1 .. i - 1 : size(storage_of(r, Ts[j])) /= least
            in(e)  == e \in InAll(r, Ts)
        IN  last.visited = SelectSeq(range(storage_of(r, Ts[first])), in)

\* a view over two storages of two entries each, which hold them in
\* opposite dense orders, has visited both entities
ViewOnTie ==
    /\ last.op = "view"
    /\ Len(last.visited) = 2
    /\ size(storage_of(1, "Position")) = 2
    /\ size(storage_of(1, "Velocity")) = 2
    /\ range(storage_of(1, "Position")) /= range(storage_of(1, "Velocity"))

\* a view has visited two entities in the dense order of the strictly
\* smaller storage, which is named second and holds them in the opposite
\* order to the storage named first
ViewOnSmaller ==
    /\ last.op = "view"
    /\ Len(last.visited) = 2
    /\ size(storage_of(1, last.Ts[2])) < size(storage_of(1, last.Ts[1]))
    /\ LET in(e) == e \in ToSet(last.visited)
       IN  SelectSeq(range(storage_of(1, last.Ts[1])), in) /= last.visited

\* C21: an emplace(e, v) that returns, on a set that has e, replaces the
\* payload of e and leaves the size, the dense slot of e, the dense order
\* and the presence and payload of every other entity as they were; on a
\* set that does not have e it appends one dense entry, at position n, and
\* the size grows by one.
EmplaceFrame ==
    [][(set_call'.op = "emplace" /\ ~set_call'.thrown) =>
          LET e == set_call'.e
              v == set_call'.v
          IN  /\ has(set', e) /\ payload_of(set', e) = v
              /\ \A x \in Indices \ {e} :
                     /\ has(set', x) <=> has(set, x)
                     /\ has(set, x) => payload_of(set', x) = payload_of(set, x)
              /\ IF set_call'.had
                 THEN /\ size(set') = size(set)
                      /\ set'.sparse_[e] = set.sparse_[e]
                      /\ range(set') = range(set)
                 ELSE /\ size(set') = size(set) + 1
                      /\ set'.sparse_[e] = size(set)
                      /\ dense_at(set', size(set)) = [index |-> e, payload |-> v]
                      /\ SubSeq(set'.dense_, 1, size(set)) = set.dense_]_vars

\* an emplace has replaced the payload of an entity that is not in the last
\* dense slot of a set that had entries erased
EmplacedOverPresent ==
    /\ set_call.op = "emplace" /\ set_call.had /\ ~set_call.thrown
    /\ set.n >= 2
    /\ set.sparse_[set_call.e] < set.n - 1
    /\ set.dense_size > set.n

\* an emplace has appended an entry to a set that had entries erased
EmplacedAbsent ==
    /\ set_call.op = "emplace" /\ ~set_call.had /\ ~set_call.thrown
    /\ set.n >= 2
    /\ set.dense_size > set.n

\* the owners recorded in the dense entries at positions [0, n)
owners(s) == {dense_at(s, i).index : i \in 0 .. s.n - 1}

\* C22: in every state has(e) is true exactly for the owners of the dense
\* entries at positions [0, n), no two of these entries have the same
\* owner, and has(e) is false for every other index, one that was erased
\* or that lies beyond the sparse array included.
HasIffDenseOwner ==
    /\ \A e \in Indices : has(set, e) <=> e \in owners(set)
    /\ \A i, j \in 0 .. set.n - 1 :
           i /= j => dense_at(set, i).index /= dense_at(set, j).index
    /\ Cardinality(owners(set)) = set.n
    /\ \A e \in Indices \ DOMAIN entries : ~has(set, e)

\* an emplace has returned on a set whose sparse array has grown, that has
\* entries erased, and that lacks an index inside the sparse array which a
\* dense left-over beyond n could still name
AbsentInsideGrownSet ==
    /\ set_call.op = "emplace" /\ ~set_call.thrown
    /\ set.sparse_size > initial_sparse_size
    /\ set.dense_size > set.n
    /\ set.n >= 2
    /\ \E e \in FarEntities : e < set.sparse_size /\ e \notin DOMAIN entries

\* C23: each<T>(f) calls f once for every entity that has a T and for no
\* other entity, with the payload the entity holds, in the order of the
\* dense positions 0 to n - 1.
EachVisitsDenseOrder ==
    last.op = "each" =>
        LET st == storage_of(last.r, last.t)
            v  == last.visited
        IN  /\ Len(v) = Cardinality(DOMAIN stored[last.t])
            /\ {v[i].index : i \in 1 .. Len(v)} = DOMAIN stored[last.t]
            /\ \A i \in 1 .. Len(v) : v[i].payload = stored[last.t][v[i].index]
            /\ \A e \in Indices :
                   has_component(last.r, last.t, e) <=> \E i \in 1 .. Len(v) : v[i].index = e
            /\ Len(v) = st.n
            /\ \A i \in 1 .. Len(v) : v[i] = dense_at(st, i - 1)

\* each has visited two entities with different payloads, the entity with
\* the larger id first
EachOutOfEntityOrder ==
    /\ last.op = "each"
    /\ Len(last.visited) = 2
    /\ last.visited[1].index > last.visited[2].index
    /\ last.visited[1].payload /= last.visited[2].payload

\* C24: after every step of a sequence of emplace and erase calls with
\* indices within capacity, has(e) is membership of e in the domain of the
\* map, size() is the size of the domain, and the payload of every entity
\* the set has is the map's value.
RefinesMap ==
    /\ \A e \in Indices : has(set, e) <=> e \in DOMAIN abstract_map
    /\ size(set) = Cardinality(DOMAIN abstract_map)
    /\ \A e \in DOMAIN abstract_map : has(set, e) => payload_of(set, e) = abstract_map[e]

\* C25: a shutdown call that has started returns, with every worker
\* thread out of worker_loop, whatever the workers were doing when it was
\* called.
ShutdownTerminates ==
    (caller.pc = "store") ~>
        (caller.pc = "returned" /\ \A w \in PoolWorkers : workers[w].pc = "exited")

\* C26: when shutdown has returned, and every enqueue call has returned or
\* thrown, the task queue is empty and every task an enqueue call accepted
\* has been run.
QueueDrainedAtShutdown ==
    (caller.pc = "returned" /\ \A p \in Producers : producers[p] \in {"idle", "returned", "threw"}) =>
        /\ tasks_ = <<>>
        /\ \A t \in 1 .. log.accepted : \E i \in 1 .. Len(log.executed) : log.executed[i] = t

\* the i-th task taken is the i-th task accepted, the queue holds the
\* accepted tasks not yet taken, in order, and the tasks run or running are
\* distinct tasks that were taken, each running on the worker that took it
TakenInOrder ==
    LET k == Len(log.taken)
        busy == {w \in PoolWorkers : workers[w].pc = "run"}
    IN  /\ k <= log.accepted
        /\ \A i \in 1 .. k : log.taken[i].task = i
        /\ tasks_ = [i \in 1 .. log.accepted - k |-> k + i]
        /\ \A i, j \in 1 .. Len(log.executed) : i /= j => log.executed[i] /= log.executed[j]
        /\ \A i \in 1 .. Len(log.executed) : log.executed[i] \in 1 .. k
        /\ \A w \in busy :
               /\ workers[w].task \in 1 .. k
               /\ log.taken[workers[w].task].worker = w
               /\ \A i \in 1 .. Len(log.executed) : log.executed[i] /= workers[w].task
        /\ \A w, x \in busy : w /= x => workers[w].task /= workers[x].task

====
